---- MODULE Spec2Model ----
(***************************************************************************)
(* uv-mirror: the speed prober (download), the probe batches               *)
(* (test_index_urls, test_python_install_urls), the commands index,        *)
(* python_install and all of src/src/uv_mirror/cli.py, the standalone      *)
(* script src/uv-index.py, and the configuration mutators set_index_url    *)
(* and set_python_install_mirror.                                          *)
(*                                                                         *)
(* Time is counted in integer clock ticks.  A speed is the exact quotient  *)
(* total_bytes / duration, kept as a pair <<numerator, denominator>> with  *)
(* a positive denominator and compared by cross multiplication.            *)
(***************************************************************************)
EXTENDS Integers, Sequences, FiniteSets, TLC

VARIABLES
  entry,      \* the entry point that was invoked
  yes,        \* the -y flag of the command
  timeout,    \* the --timeout option of the command (the script uses 5)
  pc,         \* position of the running entry point
  stage,      \* "index" or "python_install": the command body that is running
  i,          \* 1-based position of the next candidate of the running batch
  results,    \* the list `results` of the running batch
  out,        \* the lines the running batch has printed
  probed,     \* the candidates the running batch has called download for
  chosen,     \* `result`, the head of the sorted results (or the script's fast_index)
  answer,     \* what the confirmation prompt returned in the running command
  message,    \* the final notice of the running command body
  fileText,   \* the content of uv.toml
  written,    \* the callers whose mutator has called write_text on uv.toml
  data,       \* the list `data` of the script's main
  lastOp,     \* the last mutator call: its argument, the text it read, what it returned
  probe       \* the last isolated download call: its stream, timeout and outcome

vars == <<entry, yes, timeout, pc, stage, i, results, out, probed, chosen,
          answer, message, fileText, written, data, lastOp, probe>>

(***************************************************************************)
(* Bounds                                                                  *)
(***************************************************************************)
\* candidates of cli.py's index_urls that a batch probes (the list has 9)
NumIndexUrls == 3
\* candidates of uv-index.py's index_urls that main probes (the list has 9)
NumScriptUrls == 2
\* chunks a response stream yields at most
MaxChunks == 2
\* [[index]] tables of a starting configuration document at most
MaxEntries == 2

\* sizes of a chunk (chunk_size=1024 is the nominal size; the last may be shorter)
ChunkSizes == {1, 2}
\* clock advance between two readings of time.time(); -1 is a clock set back
Dts == {-1, 0, 1, 2}
\* readings of time.time() at the start of a probe
StartTimes == {10, 20}
\* values of the --timeout option, in ticks
Timeouts == {1}

(***************************************************************************)
(* Candidate lists                                                         *)
(***************************************************************************)
AllIndexUrls ==
  << "https://mirrors.aliyun.com/pypi/simple/",
     "https://mirrors.tencent.com/pypi/simple/",
     "https://mirror.nju.edu.cn/pypi/web/simple/",
     "https://mirrors.sustech.edu.cn/pypi/web/simple/",
     "https://mirrors.ustc.edu.cn/pypi/web/simple/",
     "https://mirrors.jlu.edu.cn/pypi/web/simple/",
     "https://mirrors.tuna.tsinghua.edu.cn/pypi/web/simple/",
     "https://mirrors.pku.edu.cn/pypi/web/simple/",
     "https://mirrors.zju.edu.cn/pypi/web/simple/" >>

index_urls == SubSeq(AllIndexUrls, 1, NumIndexUrls)

python_install_urls ==
  << "https://registry.npmmirror.com/-/binary/python-build-standalone",
     "https://mirror.nju.edu.cn/github-release/indygreg/python-build-standalone" >>

script_index_urls == SubSeq(AllIndexUrls, 1, NumScriptUrls)

\* the candidates in the order of Python's str comparison
UrlsInStrOrder ==
  << "https://mirror.nju.edu.cn/pypi/web/simple/",
     "https://mirrors.aliyun.com/pypi/simple/",
     "https://mirrors.jlu.edu.cn/pypi/web/simple/",
     "https://mirrors.pku.edu.cn/pypi/web/simple/",
     "https://mirrors.sustech.edu.cn/pypi/web/simple/",
     "https://mirrors.tencent.com/pypi/simple/",
     "https://mirrors.tuna.tsinghua.edu.cn/pypi/web/simple/",
     "https://mirrors.ustc.edu.cn/pypi/web/simple/",
     "https://mirrors.zju.edu.cn/pypi/web/simple/" >>

PosIn(seq, x) == CHOOSE k \in 1..Len(seq) : seq[k] = x

StrLess(a, b) == PosIn(UrlsInStrOrder, a) < PosIn(UrlsInStrOrder, b)

(***************************************************************************)
(* Response streams: what the network does during one probe                *)
(***************************************************************************)
Chunk == [dt : Dts, len : ChunkSizes]

ChunkSeqs == UNION {[1..n -> Chunk] : n \in 0..MaxChunks}

\* open = FALSE: client.stream raises before any byte (connection, TLS, protocol);
\* end = "error": iter_bytes raises after the chunks (read error);
\* edt: clock advance from the last reading to the moment the error is handled
Streams ==
  [open : {FALSE}, chunks : {<< >>}, end : {"error"}, edt : Dts]
    \cup [open : {TRUE}, chunks : ChunkSeqs, end : {"error"}, edt : Dts]
    \cup [open : {TRUE}, chunks : ChunkSeqs, end : {"eof"}, edt : {0}]

(***************************************************************************)
(* Speeds                                                                  *)
(***************************************************************************)
Abs(x) == IF x < 0 THEN -x ELSE x

\* total_bytes / duration for duration # 0
Div(total_bytes, duration) ==
  << IF duration < 0 THEN -total_bytes ELSE total_bytes, Abs(duration) >>

SpeedLess(a, b) == a[1] * b[2] < b[1] * a[2]

SpeedEq(a, b) == a[1] * b[2] = b[1] * a[2]

SpeedPositive(s) == s[1] > 0

(***************************************************************************)
(* download                                                                *)
(***************************************************************************)
\* the for loop over stream.iter_bytes: `k` is the next chunk, `now` the last
\* clock reading; `consumed` counts the chunks taken from the iterator
RECURSIVE ReadLoop(_, _, _, _, _, _, _)
ReadLoop(chunks, k, now, start_at, end_at, total_bytes, tmo) ==
  IF k > Len(chunks)
  THEN [end_at |-> end_at, total_bytes |-> total_bytes, consumed |-> k - 1,
        broke |-> FALSE, now |-> now]
  ELSE LET t == now + chunks[k].dt
       IN  IF t - start_at > tmo
           THEN [end_at |-> t, total_bytes |-> total_bytes, consumed |-> k,
                 broke |-> TRUE, now |-> t]
           ELSE ReadLoop(chunks, k + 1, t, start_at, t,
                         total_bytes + chunks[k].len, tmo)

Raised(kind, value) ==
  [exc |-> kind, total_bytes |-> 0, duration |-> 0, value |-> value,
   speed |-> <<0, 1>>, consumed |-> 0, broke |-> FALSE]

\* cli.py download(value, url, timeout); the stream is what `url` serves
download(value, stream, tmo, start_at) ==
  IF ~stream.open
  THEN Raised("RequestError", value)
  ELSE LET lp == ReadLoop(stream.chunks, 1, start_at, start_at, -1, 0, tmo)
           duration == lp.end_at - start_at
       IN  IF ~lp.broke /\ stream.end = "error"
           THEN Raised("RequestError", value)
           ELSE IF duration = 0
           THEN Raised("ZeroDivisionError", value)
           ELSE [exc |-> "none", total_bytes |-> lp.total_bytes,
                 duration |-> duration, value |-> value,
                 speed |-> Div(lp.total_bytes, duration),
                 consumed |-> lp.consumed, broke |-> lp.broke]

\* uv-index.py download(url, timeout): a RequestError is logged and ends the
\* measurement at the time it is handled
script_download(stream, tmo, start_at) ==
  IF ~stream.open
  THEN [total_bytes |-> 0, duration |-> (start_at + stream.edt) - start_at]
  ELSE LET lp == ReadLoop(stream.chunks, 1, start_at, start_at, -1, 0, tmo)
       IN  IF ~lp.broke /\ stream.end = "error"
           THEN [total_bytes |-> lp.total_bytes,
                 duration |-> (lp.now + stream.edt) - start_at]
           ELSE [total_bytes |-> lp.total_bytes,
                 duration |-> lp.end_at - start_at]

\* every outcome download can have, per timeout (the candidate is filled in
\* by the caller)
DownloadOutcomes ==
  [tmo \in Timeouts |->
     {download("", s, tmo, t) : s \in Streams, t \in StartTimes}]

ScriptDownloadOutcomes ==
  [tmo \in Timeouts |->
     {script_download(s, tmo, t) : s \in Streams, t \in StartTimes}]

(***************************************************************************)
(* uv.toml as text and as a parsed document                                *)
(*                                                                         *)
(* The text is a sequence of lines.  A line is the table header [[index]]  *)
(* or `key = literal`; a literal is a quoted string (q = TRUE) or a bare   *)
(* word such as true / false (q = FALSE).  The parsed document keeps the   *)
(* top-level scalars and the array of tables `index`, each an ordered list *)
(* of typed items, as tomlkit does.                                        *)
(***************************************************************************)
HeaderLine == [k |-> "[[index]]", q |-> FALSE, s |-> ""]

StrItem(key, str) == [k |-> key, isbool |-> FALSE, b |-> FALSE, s |-> str]

BoolItem(key, bool) == [k |-> key, isbool |-> TRUE, b |-> bool, s |-> ""]

\* a literal of the text to a typed item
ParseLine(line) ==
  IF line.q THEN StrItem(line.k, line.s)
  ELSE IF line.s = "true" THEN BoolItem(line.k, TRUE)
  ELSE BoolItem(line.k, FALSE)

\* a typed item to its literal
DumpItem(item) ==
  IF item.isbool
  THEN [k |-> item.k, q |-> FALSE, s |-> IF item.b THEN "true" ELSE "false"]
  ELSE [k |-> item.k, q |-> TRUE, s |-> item.s]

RECURSIVE ParseFrom(_, _, _, _)
ParseFrom(text, n, top, tables) ==
  IF n > Len(text) THEN [top |-> top, index |-> tables]
  ELSE IF text[n] = HeaderLine
  THEN ParseFrom(text, n + 1, top, Append(tables, << >>))
  ELSE IF tables = << >>
  THEN ParseFrom(text, n + 1, Append(top, ParseLine(text[n])), tables)
  ELSE ParseFrom(text, n + 1, top,
                 [tables EXCEPT ![Len(tables)] = Append(@, ParseLine(text[n]))])

\* tomlkit.parse
parse(text) == ParseFrom(text, 1, << >>, << >>)

DumpItems(items) == [n \in 1..Len(items) |-> DumpItem(items[n])]

RECURSIVE DumpTables(_)
DumpTables(tables) ==
  IF tables = << >> THEN << >>
  ELSE <<HeaderLine>> \o DumpItems(Head(tables)) \o DumpTables(Tail(tables))

\* tomlkit.dumps
dumps(config) == DumpItems(config.top) \o DumpTables(config.index)

HasKey(items, key) == \E n \in 1..Len(items) : items[n].k = key

GetItem(items, key) == items[CHOOSE n \in 1..Len(items) : items[n].k = key]

\* container[key] = value: an existing key keeps its place, a new one goes last
SetItem(items, item) ==
  IF HasKey(items, item.k)
  THEN [n \in 1..Len(items) |-> IF items[n].k = item.k THEN item ELSE items[n]]
  ELSE Append(items, item)

\* Python truthiness of a TOML value
Truthy(item) == IF item.isbool THEN item.b ELSE item.s # ""

(***************************************************************************)
(* Config mutators                                                         *)
(***************************************************************************)
\* variant: the default table is replaced by a fresh one holding only the
\* new url and the default flag
SetUrlFresh(table, index_url) ==
  << [k |-> "url", isbool |-> FALSE, b |-> FALSE, s |-> index_url],
     [k |-> "default", isbool |-> TRUE, b |-> TRUE, s |-> ""] >>

\* item["url"] = index_url
SetUrl(table, index_url) == SetItem(table, StrItem("url", index_url))

\* variant: the flag is never set
MarkFoundForgotten(found) == found

\* default_index_found = True
MarkFound(found) == TRUE

\* variant: the new table is not marked default
NewItemNotDefault(index_url) ==
  << StrItem("url", index_url), BoolItem("default", FALSE) >>

\* new_item = tomlkit.table(); new_item["url"] = ...; new_item["default"] = True
NewItem(index_url) == << StrItem("url", index_url), BoolItem("default", TRUE) >>

\* for item in index_aot: if item["default"]: ...   (item["default"] raises
\* KeyError on a table without that key)
RECURSIVE ScanDefaults(_, _, _, _)
ScanDefaults(index_aot, n, index_url, found) ==
  IF n > Len(index_aot)
  THEN [aot |-> index_aot, found |-> found, raised |-> FALSE]
  ELSE IF ~HasKey(index_aot[n], "default")
  THEN [aot |-> index_aot, found |-> found, raised |-> TRUE]
  ELSE IF Truthy(GetItem(index_aot[n], "default"))
  THEN ScanDefaults([index_aot EXCEPT ![n] = SetUrl(@, index_url)], n + 1,
                    index_url, MarkFound(found))
  ELSE ScanDefaults(index_aot, n + 1, index_url, found)

\* display_diff: whether the two texts differ (the diff itself is console output)
display_diff(s1, s2) == s1 # s2

\* set_index_url(index_url) on a file holding old_config_text
set_index_url(old_config_text, index_url) ==
  LET config == parse(old_config_text)
      scan == ScanDefaults(config.index, 1, index_url, FALSE)
      index_aot == IF scan.found THEN scan.aot
                   ELSE Append(scan.aot, NewItem(index_url))
      config_text == dumps([config EXCEPT !.index = index_aot])
  IN  IF scan.raised
      THEN [raised |-> TRUE, wrote |-> FALSE, text |-> old_config_text,
            ret |-> FALSE]
      ELSE [raised |-> FALSE, wrote |-> TRUE, text |-> config_text,
            ret |-> display_diff(old_config_text, config_text)]

\* set_python_install_mirror(python_install_mirror)
set_python_install_mirror(old_config_text, python_install_mirror) ==
  LET config == parse(old_config_text)
      top == SetItem(config.top,
                     StrItem("python-install-mirror", python_install_mirror))
      config_text == dumps([config EXCEPT !.top = top])
  IN  [raised |-> FALSE, wrote |-> TRUE, text |-> config_text,
       ret |-> display_diff(old_config_text, config_text)]

(***************************************************************************)
(* Starting documents                                                      *)
(***************************************************************************)
OfficialIndex == "https://pypi.org/simple/"

StartTables ==
  {<< StrItem("url", u), BoolItem("default", b) >> :
      u \in {OfficialIndex, AllIndexUrls[1]}, b \in BOOLEAN}
    \cup {<< StrItem("name", "pypi"), StrItem("url", OfficialIndex),
             BoolItem("default", b) >> : b \in BOOLEAN}
    \cup {<< StrItem("url", OfficialIndex) >>,
          << BoolItem("default", TRUE) >>}

StartTops ==
  {<< >>, << StrItem("python-install-mirror", python_install_urls[2]) >>}

StartTexts ==
  {dumps([top |-> t, index |-> x]) :
      t \in StartTops,
      x \in UNION {[1..n -> StartTables] : n \in 0..MaxEntries}}

\* the documents a command run starts from
CliStartTexts ==
  {dumps([top |-> << >>, index |-> x]) :
      x \in {<< >>,
             << << StrItem("name", "mirror"), StrItem("url", AllIndexUrls[1]),
                   BoolItem("default", TRUE) >> >>}}

(***************************************************************************)
(* Probe batches and ranking                                               *)
(***************************************************************************)
DownloadResult(o) ==
  [total_bytes |-> o.total_bytes, duration |-> o.duration, value |-> o.value,
   speed |-> o.speed]

NoResult == [total_bytes |-> 0, duration |-> 0, value |-> "", speed |-> <<0, 1>>]

\* variant: `if result.speed >= 0`
IsValidNonNegative(speed) == speed[1] >= 0

\* if result.speed > 0
IsValid(speed) == SpeedPositive(speed)

\* one iteration of the for loop of test_index_urls / test_python_install_urls:
\* the try body and the except clause, given what download did
ProbeStep(res, lines, o) ==
  IF o.exc # "none"
  THEN [results |-> res,
        out |-> Append(lines, [kind |-> "error", value |-> o.value,
                               text |-> o.exc])]
  ELSE IF IsValid(o.speed)
  THEN [results |-> Append(res, DownloadResult(o)),
        out |-> Append(lines, [kind |-> "speed", value |-> o.value,
                               text |-> ""])]
  ELSE [results |-> res, out |-> lines]

\* variant: no except clause around download, the first error ends the loop
LoopNextStopOnError(n, o, last) == IF o.exc # "none" THEN last + 1 ELSE n + 1

\* the for statement: the except clause swallows the exception and the loop
\* goes on with the next candidate
LoopNext(n, o, last) == n + 1

\* list.sort is stable and reverse=True keeps the original order of equal keys:
\* `r` goes behind every element that is at least as fast
RECURSIVE InsertReverse(_, _)
InsertReverse(sorted, r) ==
  IF sorted = << >> THEN <<r>>
  ELSE IF SpeedLess(Head(sorted).speed, r.speed) THEN <<r>> \o sorted
  ELSE <<Head(sorted)>> \o InsertReverse(Tail(sorted), r)

RECURSIVE SortedReverse(_)
SortedReverse(res) ==
  IF res = << >> THEN << >>
  ELSE InsertReverse(SortedReverse(SubSeq(res, 1, Len(res) - 1)), res[Len(res)])

\* variant: sorted(results, key=...)[-1], the last of the fastest, not the first
FastestOfAscending(res) == SortedReverse(
    [n \in 1..Len(res) |-> res[Len(res) + 1 - n]])[1]

\* sorted(results, key=lambda x: x.speed, reverse=True)[0], for results # []
Fastest(res) == SortedReverse(res)[1]

\* variant: the mutator is called whatever the prompt returned
ShouldSetAlways(flag, confirmed) == TRUE

\* if yes or typer.confirm(..., default=True)
ShouldSet(flag, confirmed) == flag \/ confirmed

StageUrls(st) ==
  IF st = "index" THEN index_urls
  ELSE IF st = "python_install" THEN python_install_urls
  ELSE script_index_urls

\* the mutator of a command body
StageSet(st, text, value) ==
  IF st = "python_install" THEN set_python_install_mirror(text, value)
  ELSE set_index_url(text, value)

NoOp == [op |-> "none", arg |-> "", old |-> << >>, ret |-> FALSE,
         raised |-> FALSE, prevOp |-> "none", prevArg |-> "", prevRet |-> FALSE]

\* the record of a mutator call `op(arg)` that read `old` and had result `r`
OpRecord(op, arg, old, r, before) ==
  [op |-> op, arg |-> arg, old |-> old, ret |-> r.ret, raised |-> r.raised,
   prevOp |-> before.op, prevArg |-> before.arg, prevRet |-> before.ret]

NoProbe == [kind |-> "none", stream |-> [open |-> FALSE, chunks |-> << >>,
                                         end |-> "error", edt |-> 0],
            start_at |-> 0, timeout |-> 0, called |-> FALSE,
            res |-> Raised("none", "")]

(***************************************************************************)
(* The commands index, python_install, all                                 *)
(***************************************************************************)
Init ==
  /\ entry \in {"index", "python_install", "all", "uv-index"}
  /\ yes \in (IF entry = "uv-index" THEN {FALSE} ELSE BOOLEAN)
  /\ timeout \in Timeouts
  /\ pc = "probe"
  /\ stage = (IF entry \in {"index", "all"} THEN "index"
              ELSE IF entry = "python_install" THEN "python_install"
              ELSE "script")
  /\ i = 1
  /\ results = << >>
  /\ out = << >>
  /\ probed = << >>
  /\ chosen = NoResult
  /\ answer = "none"
  /\ message = "none"
  /\ fileText \in CliStartTexts
  /\ written = {}
  /\ data = << >>
  /\ lastOp = NoOp
  /\ probe = NoProbe

\* one iteration of the batch loop of command body `st`
TestUrlsStep(st) ==
  /\ pc = "probe" /\ stage = st /\ i <= Len(StageUrls(st))
  /\ \E o0 \in DownloadOutcomes[timeout] :
       LET o == [o0 EXCEPT !.value = StageUrls(st)[i]]
           r == ProbeStep(results, out, o)
       IN  /\ results' = r.results
           /\ out' = r.out
           /\ probed' = Append(probed, StageUrls(st)[i])
           /\ i' = LoopNext(i, o, Len(StageUrls(st)))
  /\ UNCHANGED <<entry, yes, timeout, pc, stage, chosen, answer, message,
                 fileText, written, data, lastOp, probe>>

\* the batch has returned: sorted(...)[0] (IndexError on no result) and the
\* "fastest" line
Select(st) ==
  /\ pc = "probe" /\ stage = st /\ i > Len(StageUrls(st))
  /\ IF results = << >>
     THEN pc' = "failed" /\ chosen' = chosen
     ELSE pc' = "confirm" /\ chosen' = Fastest(results)
  /\ UNCHANGED <<entry, yes, timeout, stage, i, results, out, probed, answer,
                 message, fileText, written, data, lastOp, probe>>

\* the prompt (skipped with -y), the mutator and the final notice; under `all`
\* the index body is followed by the python_install body
Confirm(st) ==
  /\ pc = "confirm" /\ stage = st
  /\ \E confirmed \in (IF yes THEN {TRUE} ELSE BOOLEAN) :
       LET r == StageSet(st, fileText, chosen.value)
           set == ShouldSet(yes, confirmed)
           aborted == set /\ r.raised
           next == entry = "all" /\ st = "index" /\ ~aborted
       IN  /\ answer' = (IF yes THEN "none" ELSE IF confirmed THEN "y" ELSE "n")
           /\ fileText' = (IF set THEN r.text ELSE fileText)
           /\ written' = (IF set /\ r.wrote THEN written \cup {st} ELSE written)
           /\ message' = (IF ~set \/ r.raised THEN "none"
                          ELSE IF r.ret THEN "changed" ELSE "nochange")
           /\ lastOp' = (IF set
                         THEN OpRecord(st, chosen.value, fileText, r, lastOp)
                         ELSE lastOp)
           /\ pc' = (IF aborted THEN "failed" ELSE IF next THEN "probe" ELSE "done")
           /\ stage' = (IF next THEN "python_install" ELSE stage)
           /\ i' = (IF next THEN 1 ELSE i)
           /\ results' = (IF next THEN << >> ELSE results)
           /\ out' = (IF next THEN << >> ELSE out)
           /\ probed' = (IF next THEN << >> ELSE probed)
  /\ UNCHANGED <<entry, yes, timeout, chosen, data, probe>>

TestIndexUrlsStep == TestUrlsStep("index")

TestPythonInstallUrlsStep == TestUrlsStep("python_install")

IndexSelect == Select("index")

PythonInstallSelect == Select("python_install")

IndexConfirm == Confirm("index")

PythonInstallConfirm == Confirm("python_install")

(***************************************************************************)
(* uv-index.py main                                                        *)
(***************************************************************************)
\* tuple comparison of (speed, url)
DataLess(a, b) ==
  \/ SpeedLess(a.speed, b.speed)
  \/ SpeedEq(a.speed, b.speed) /\ StrLess(a.url, b.url)

\* max(data)
MaxData(d) ==
  d[CHOOSE n \in 1..Len(d) : \A m \in 1..Len(d) : ~DataLess(d[n], d[m])]

\* one iteration of main's loop: total_bytes / duration raises
\* ZeroDivisionError on a zero duration, and nothing catches it
ScriptStep ==
  /\ pc = "probe" /\ stage = "script" /\ i <= Len(script_index_urls)
  /\ \E o \in ScriptDownloadOutcomes[timeout] :
       /\ probed' = Append(probed, script_index_urls[i])
       /\ IF o.duration = 0
          THEN pc' = "failed" /\ data' = data /\ i' = i
          ELSE /\ pc' = pc
               /\ data' = Append(data, [speed |-> Div(o.total_bytes, o.duration),
                                        url |-> script_index_urls[i]])
               /\ i' = i + 1
  /\ UNCHANGED <<entry, yes, timeout, stage, results, out, chosen, answer,
                 message, fileText, written, lastOp, probe>>

\* _, fast_index = max(data); set_index_url(fast_index)
ScriptSetIndex ==
  /\ pc = "probe" /\ stage = "script" /\ i > Len(script_index_urls)
  /\ LET fast == MaxData(data)
         r == set_index_url(fileText, fast.url)
     IN  /\ chosen' = [NoResult EXCEPT !.value = fast.url, !.speed = fast.speed]
         /\ fileText' = r.text
         /\ written' = (IF r.wrote THEN written \cup {"script"} ELSE written)
         /\ lastOp' = OpRecord("script", fast.url, fileText, r, lastOp)
         /\ pc' = (IF r.raised THEN "failed" ELSE "done")
  /\ UNCHANGED <<entry, yes, timeout, stage, i, results, out, probed, answer,
                 message, data, probe>>

Next ==
  \/ TestIndexUrlsStep
  \/ IndexSelect
  \/ IndexConfirm
  \/ TestPythonInstallUrlsStep
  \/ PythonInstallSelect
  \/ PythonInstallConfirm
  \/ ScriptStep
  \/ ScriptSetIndex

Spec == Init /\ [][Next]_vars

(***************************************************************************)
(* The mutators on their own: any starting document, any sequence of calls *)
(***************************************************************************)
MutatorUrls == {AllIndexUrls[1], AllIndexUrls[2]}

InitMutator ==
  /\ entry = "mutator"
  /\ yes = FALSE
  /\ timeout \in Timeouts
  /\ pc = "idle"
  /\ stage = "none"
  /\ i = 1
  /\ results = << >>
  /\ out = << >>
  /\ probed = << >>
  /\ chosen = NoResult
  /\ answer = "none"
  /\ message = "none"
  /\ fileText \in StartTexts
  /\ written = {}
  /\ data = << >>
  /\ lastOp = NoOp
  /\ probe = NoProbe

CallSetIndexUrl ==
  /\ \E index_url \in MutatorUrls :
       LET r == set_index_url(fileText, index_url)
       IN  /\ fileText' = r.text
           /\ written' = (IF r.wrote THEN written \cup {"index"} ELSE written)
           /\ lastOp' = OpRecord("set_index_url", index_url, fileText, r, lastOp)
  /\ UNCHANGED <<entry, yes, timeout, pc, stage, i, results, out, probed,
                 chosen, answer, message, data, probe>>

CallSetPythonInstallMirror ==
  /\ \E mirror \in {python_install_urls[n] : n \in 1..Len(python_install_urls)} :
       LET r == set_python_install_mirror(fileText, mirror)
       IN  /\ fileText' = r.text
           /\ written' = (IF r.wrote THEN written \cup {"python_install"}
                          ELSE written)
           /\ lastOp' = OpRecord("set_python_install_mirror", mirror, fileText,
                                 r, lastOp)
  /\ UNCHANGED <<entry, yes, timeout, pc, stage, i, results, out, probed,
                 chosen, answer, message, data, probe>>

NextMutator == CallSetIndexUrl \/ CallSetPythonInstallMirror

SpecMutator == InitMutator /\ [][NextMutator]_vars

(***************************************************************************)
(* download on its own: any stream, either implementation                  *)
(***************************************************************************)
ProbeTimeouts == {1, 2}

InitProbe ==
  /\ entry = "download"
  /\ yes = FALSE
  /\ timeout \in Timeouts
  /\ pc = "idle"
  /\ stage = "none"
  /\ i = 1
  /\ results = << >>
  /\ out = << >>
  /\ probed = << >>
  /\ chosen = NoResult
  /\ answer = "none"
  /\ message = "none"
  /\ fileText = << >>
  /\ written = {}
  /\ data = << >>
  /\ lastOp = NoOp
  /\ probe \in [kind : {"cli", "script"}, stream : Streams,
                start_at : StartTimes, timeout : ProbeTimeouts,
                called : {FALSE}, res : {Raised("none", "")}]

CallDownload ==
  /\ probe.kind = "cli" /\ ~probe.called
  /\ probe' = [probe EXCEPT
                 !.called = TRUE,
                 !.res = download(AllIndexUrls[1], probe.stream, probe.timeout,
                                  probe.start_at)]
  /\ UNCHANGED <<entry, yes, timeout, pc, stage, i, results, out, probed,
                 chosen, answer, message, fileText, written, data, lastOp>>

CallScriptDownload ==
  /\ probe.kind = "script" /\ ~probe.called
  /\ LET r == script_download(probe.stream, probe.timeout, probe.start_at)
     IN  probe' = [probe EXCEPT
                     !.called = TRUE,
                     !.res = [Raised("none", "") EXCEPT
                                !.total_bytes = r.total_bytes,
                                !.duration = r.duration]]
  /\ UNCHANGED <<entry, yes, timeout, pc, stage, i, results, out, probed,
                 chosen, answer, message, fileText, written, data, lastOp>>

NextProbe == CallDownload \/ CallScriptDownload

SpecProbe == InitProbe /\ [][NextProbe]_vars

(***************************************************************************)
(* Properties                                                              *)
(***************************************************************************)
CliStages == {"index", "python_install"}

Flagged(table) == HasKey(table, "default") /\ Truthy(GetItem(table, "default"))

NumDefaults(text) ==
  Cardinality({n \in 1..Len(parse(text).index) : Flagged(parse(text).index[n])})

SetIndexUrlDone == lastOp.op = "set_index_url" /\ ~lastOp.raised

\* C1: once index / python_install has picked its target, the target is one of
\* the batch's valid results, no result is faster, and among the results of
\* the same speed it is the one whose candidate comes first in the list.
C1_FastestFirstInListOrder ==
  (pc = "confirm" /\ stage \in CliStages) =>
    /\ \E j \in 1..Len(results) : chosen = results[j]
    /\ SpeedPositive(chosen.speed)
    /\ \A k \in 1..Len(results) :
         /\ ~SpeedLess(chosen.speed, results[k].speed)
         /\ SpeedEq(chosen.speed, results[k].speed) =>
              PosIn(StageUrls(stage), chosen.value)
                <= PosIn(StageUrls(stage), results[k].value)

\* a target was picked among two results of equal speed (measured over
\* different byte counts) and a slower one
C1_TieWitness ==
  /\ pc = "confirm" /\ stage = "index"
  /\ \E j, k, m \in 1..Len(results) :
       /\ j < k
       /\ chosen = results[j]
       /\ results[j].total_bytes # results[k].total_bytes
       /\ SpeedEq(results[j].speed, results[k].speed)
       /\ SpeedLess(results[m].speed, chosen.speed)

\* C2: when no candidate yields a valid measurement, the run fails and the
\* body that probed does not write uv.toml -- for the commands and for the
\* script alike.
C2_NoViableEndpointNoWrite ==
  /\ (stage \in CliStages /\ i > Len(StageUrls(stage)) /\ results = << >>) =>
       (pc \in {"probe", "failed"} /\ stage \notin written)
  /\ (stage = "script" /\ i > Len(script_index_urls)
        /\ \A n \in 1..Len(data) : ~SpeedPositive(data[n].speed)) =>
       (pc # "done" /\ "script" \notin written)

\* C3 as stated: after set_index_url completes, on any starting document, at
\* most one index entry is default.
C3_AtMostOneDefault == SetIndexUrlDone => NumDefaults(fileText) <= 1

\* C3: after set_index_url completes, the number of default entries is the
\* number the document started with, or one if it started with none; so at
\* most one entry is default if at most one was.
C3_DefaultCountKept ==
  SetIndexUrlDone =>
    /\ NumDefaults(fileText) =
         (IF NumDefaults(lastOp.old) = 0 THEN 1 ELSE NumDefaults(lastOp.old))
    /\ NumDefaults(lastOp.old) <= 1 => NumDefaults(fileText) <= 1

\* set_index_url has appended the default entry to a document that held
\* entries, none of them default
C3_AppendWitness ==
  /\ SetIndexUrlDone
  /\ Len(parse(lastOp.old).index) > 0
  /\ NumDefaults(lastOp.old) = 0
  /\ NumDefaults(fileText) = 1

\* C4: a set_index_url(u) that completes right after a set_index_url(u) leaves
\* the text it read untouched and returns False.
C4_SecondApplicationNoChange ==
  (SetIndexUrlDone /\ lastOp.prevOp = "set_index_url"
     /\ lastOp.prevArg = lastOp.arg) =>
    (fileText = lastOp.old /\ lastOp.ret = FALSE)

\* the first of the two applications changed the file
C4_TwiceWitness ==
  /\ SetIndexUrlDone
  /\ lastOp.prevOp = "set_index_url"
  /\ lastOp.prevArg = lastOp.arg
  /\ lastOp.prevRet = TRUE
  /\ Len(parse(fileText).index) > 1

KeysOf(table) == [n \in 1..Len(table) |-> table[n].k]

NotUrl(item) == item.k # "url"

\* C5: set_index_url leaves the top-level keys alone; with a default entry in
\* the document the array keeps its length, each default entry gets the new
\* url and keeps its other fields and the order of its keys, and every other
\* entry is untouched; with no default entry the array is the old one with
\* {url, default = true} appended.
C5_OnlyTheDefaultUrlChanges ==
  SetIndexUrlDone =>
    LET old == parse(lastOp.old)
        new == parse(fileText)
    IN  /\ new.top = old.top
        /\ IF \E n \in 1..Len(old.index) : Flagged(old.index[n])
           THEN /\ Len(new.index) = Len(old.index)
                /\ \A n \in 1..Len(old.index) :
                     IF Flagged(old.index[n])
                     THEN /\ HasKey(new.index[n], "url")
                          /\ GetItem(new.index[n], "url").s = lastOp.arg
                          /\ ~GetItem(new.index[n], "url").isbool
                          /\ SelectSeq(new.index[n], NotUrl)
                               = SelectSeq(old.index[n], NotUrl)
                          /\ HasKey(old.index[n], "url") =>
                               KeysOf(new.index[n]) = KeysOf(old.index[n])
                     ELSE new.index[n] = old.index[n]
           ELSE /\ Len(new.index) = Len(old.index) + 1
                /\ SubSeq(new.index, 1, Len(old.index)) = old.index
                /\ new.index[Len(new.index)] =
                     << [k |-> "url", isbool |-> FALSE, b |-> FALSE,
                         s |-> lastOp.arg],
                        [k |-> "default", isbool |-> TRUE, b |-> TRUE,
                         s |-> ""] >>

\* the url of a named default entry was replaced next to a non-default entry
C5_InPlaceWitness ==
  /\ SetIndexUrlDone
  /\ lastOp.ret = TRUE
  /\ LET old == parse(lastOp.old)
     IN  /\ Len(old.index) = 2
         /\ Flagged(old.index[2]) /\ HasKey(old.index[2], "name")
         /\ HasKey(old.index[1], "default") /\ ~Flagged(old.index[1])

\* what C6 asks of one step
WriteDiscipline ==
  entry \in {"index", "python_install", "all"} =>
    /\ (written' # written \/ fileText' # fileText) =>
         /\ pc = "confirm"
         /\ probed = StageUrls(stage)
         /\ yes \/ answer' = "y"
         /\ written' = written \cup {stage}
    /\ (pc = "confirm" /\ answer' = "n") =>
         (fileText' = fileText /\ written' = written)

\* C6: in index, python_install and all, a step writes uv.toml only from the
\* confirmation point of the running body, whose batch has probed every
\* candidate, and only with -y or a "yes" answer; a step that takes a "no"
\* writes nothing and leaves the content as it was.
C6_WriteOnlyAfterProbeAndConfirm == [][WriteDiscipline]_vars

\* under `all` without -y: the index body was confirmed and wrote, the
\* python_install body was declined and did not
C6_DeclineWitness ==
  /\ entry = "all" /\ ~yes /\ pc = "done"
  /\ answer = "n"
  /\ written = {"index"}

OutValues(kind) ==
  LET Of(line) == line.kind = kind
      sel == SelectSeq(out, Of)
  IN  [n \in 1..Len(sel) |-> sel[n].value]

\* C7: a batch calls download for the candidates one by one in list order,
\* each once, and returns only after the last one, whatever the probes did;
\* a candidate whose probe raised is not among the results, and the results
\* are in list order.
C7_EveryCandidateProbedInOrder ==
  stage \in CliStages =>
    /\ i <= Len(StageUrls(stage)) + 1
    /\ probed = SubSeq(StageUrls(stage), 1, i - 1)
    /\ pc # "probe" => probed = StageUrls(stage)
    /\ [n \in 1..Len(results) |-> results[n].value] = OutValues("speed")
    /\ \A n \in 1..Len(out) :
         /\ \E m \in 1..Len(probed) : probed[m] = out[n].value
         /\ out[n].kind = "error" =>
              \A m \in 1..Len(results) : results[m].value # out[n].value
    /\ \A n, m \in 1..Len(results) :
         n < m => PosIn(probed, results[n].value) < PosIn(probed, results[m].value)

\* the first of the candidates failed and two later ones were ranked
C7_FailureThenRankedWitness ==
  /\ stage = "index" /\ pc = "confirm"
  /\ Len(out) = 3
  /\ out[1].kind = "error" /\ out[1].text = "RequestError"
  /\ Len(results) = 2

\* C8: every probed candidate that is not among the results has a line in the
\* batch's output.
C8_EveryExcludedTargetReported ==
  stage \in CliStages =>
    \A n \in 1..Len(probed) :
      (\A m \in 1..Len(results) : results[m].value # probed[n]) =>
        \E m \in 1..Len(out) : out[m].value = probed[n]

\* C9: every ranked result has a positive duration, a positive byte count and
\* the positive speed total_bytes / duration, so has the target picked from
\* them, and a command fails only after its batch has probed every candidate.
C9_RankedResultsArePositive ==
  stage \in CliStages =>
    /\ \A n \in 1..Len(results) :
         /\ results[n].duration > 0
         /\ results[n].total_bytes > 0
         /\ results[n].speed[1] > 0 /\ results[n].speed[2] > 0
         /\ results[n].speed[1] * results[n].duration
              = results[n].total_bytes * results[n].speed[2]
    /\ pc = "confirm" => (chosen.duration > 0 /\ chosen.total_bytes > 0)
    /\ pc = "failed" => probed = StageUrls(stage)

\* a zero duration raised in one probe, another probe was dropped for its
\* non-positive speed, and the batch still ranked a result
C9_AnomalyWitness ==
  /\ stage = "index" /\ pc = "confirm"
  /\ \E n \in 1..Len(out) : out[n].text = "ZeroDivisionError"
  /\ Len(out) < Len(probed)
  /\ Len(results) = 1

RECURSIVE SumLen(_, _)
SumLen(chunks, n) == IF n = 0 THEN 0 ELSE SumLen(chunks, n - 1) + chunks[n].len

RECURSIVE TimeOf(_, _, _)
TimeOf(chunks, n, start_at) ==
  IF n = 0 THEN start_at ELSE TimeOf(chunks, n - 1, start_at) + chunks[n].dt

\* C10: a result of cli.py's download counts the bytes of every chunk taken
\* from the stream up to and including the one whose timestamp ends the
\* measurement, its duration is that timestamp minus the start, its speed
\* their quotient, and reading stops at the first chunk seen past the timeout.
C10_BytesAndDurationCoverSameChunks ==
  (probe.called /\ probe.kind = "cli" /\ probe.res.exc = "none"
     /\ probe.res.consumed > 0) =>
    LET chunks == probe.stream.chunks
        last == probe.res.consumed
    IN  /\ probe.res.duration = TimeOf(chunks, last, probe.start_at) - probe.start_at
        /\ probe.res.total_bytes = SumLen(chunks, last)
        /\ probe.res.speed = Div(probe.res.total_bytes, probe.res.duration)
        /\ \A n \in 1..(last - 1) :
             TimeOf(chunks, n, probe.start_at) - probe.start_at <= probe.timeout
        /\ last < Len(chunks) =>
             TimeOf(chunks, last, probe.start_at) - probe.start_at > probe.timeout

====
